---- MODULE Spec2Model ----
(***************************************************************************)
(* rTC load tester: the protocol client (rtc.go) and the scheduler that    *)
(* drives it (main.go).                                                    *)
(*                                                                         *)
(* rtc.go holds two evolutions of the client.  The second one (lines       *)
(* 374-812) is the one main.go is written against (QueueWash returns a     *)
(* handle); its operations keep the source's names.  The first one (lines  *)
(* 1-372) is modelled by the operators with the suffix V1.                 *)
(*                                                                         *)
(* A client operation is sequential code without state of its own, so it   *)
(* is an operator from the outcomes of its network calls (env) to what it  *)
(* returns, together with the trace of the network stages it attempted.    *)
(***************************************************************************)
EXTENDS Integers, Sequences, FiniteSets, TLC

\* ------------------------------------------------------------- bounds
\* Longest queue listing a response carries.
MaxCars == 3
\* Largest wash id the controller hands out.
MaxHandle == 2

\* ------------------------------------------------------------- values
\* time.Time{}.String()
ZeroTime == "0001-01-01 00:00:00 +0000 UTC"
\* time.Now().String(): some non-empty text that is not the zero time.
Now == "now"
\* A nil error.
NilErr == "<nil>"
ConnectErrText == "dial tcp: i/o timeout"
DeadlineErrText == "set deadline: use of closed network connection"
CloseErrText == "close: use of closed network connection"
DecodeErrText == "xml: decode error"

Packages == {1, 2}
Handles == 1..MaxHandle

BoundedSeq(S, n) == UNION {[1..k -> S] : k \in 0..n}

\* One <car> element of a queue listing.
WashQueueItem(id, pkg) ==
    [WashID |-> id, State |-> "queued", Position |-> id, WashPkgNum |-> pkg]

Cars(pkgs) == [i \in 1..Len(pkgs) |-> WashQueueItem(i, pkgs[i])]

Listings == {Cars(p) : p \in BoundedSeq(Packages, MaxCars)}

\* A document on the wire: nothing at all, text that is not XML, or an XML
\* document with its root element, an optional <carAdded><id> and the <car>
\* elements of its <queue>.
EmptyBody == [kind |-> "empty", root |-> "", carAdded |-> <<>>, cars |-> <<>>]
GarbageBody == [kind |-> "garbage", root |-> "", carAdded |-> <<>>, cars |-> <<>>]
XmlBody(root, added, cars) ==
    [kind |-> "xml", root |-> root, carAdded |-> added, cars |-> cars]

Bodies ==
    {EmptyBody, GarbageBody, XmlBody("src", <<>>, <<>>)}
    \cup {XmlBody("tc", a, c) : a \in {<<>>} \cup {<<h>> : h \in Handles},
                                c \in Listings}

\* What bufio.Reader.ReadString('\n') yields: a line ending in the delimiter,
\* the bytes before end-of-stream (possibly none), or an I/O error.
ReadResults ==
    {[kind |-> "error", data |-> [body |-> EmptyBody, nl |-> FALSE]]}
    \cup {[kind |-> "line", data |-> [body |-> b, nl |-> TRUE]] : b \in Bodies}
    \cup {[kind |-> "eof", data |-> [body |-> b, nl |-> FALSE]] : b \in Bodies}

\* The outcomes of the network calls of one client operation: the dial, the
\* write, SetDeadline in ReadFromServer, the read, and each Close in turn.
Envs ==
    [connect : BOOLEAN, write : BOOLEAN, deadline : BOOLEAN,
     read : ReadResults, closes : [1..3 -> BOOLEAN]]

\* ------------------------------------------------------------- codec
NoXML == [cmd |-> "", washPkgNum |-> 0, id |-> 0, before |-> 0]

\* xml.Marshal of a struct of integers cannot fail.
BuildAddTailXML(washPackage) ==
    [xml |-> [cmd |-> "addTail", washPkgNum |-> washPackage, id |-> 0, before |-> 0],
     err |-> NilErr]

BuildMoveXML(washID, toBefore) ==
    [xml |-> [cmd |-> "move", washPkgNum |-> 0, id |-> washID, before |-> toBefore],
     err |-> NilErr]

BuildDeleteXML(washID) ==
    [xml |-> [cmd |-> "delete", washPkgNum |-> 0, id |-> washID, before |-> 0],
     err |-> NilErr]

getQueueXML == [cmd |-> "getQueue", washPkgNum |-> 0, id |-> 0, before |-> 0]

\* xml.Unmarshal into a struct whose XMLName is "tc": an error unless the text
\* is a document with root <tc>; an absent element leaves the zero value.
ParseRTCAddQueueResponse(message) ==
    IF message.kind = "xml" /\ message.root = "tc"
    THEN [isNil |-> FALSE,
          WashID |-> IF Len(message.carAdded) > 0 THEN message.carAdded[1] ELSE 0,
          err |-> NilErr]
    ELSE [isNil |-> TRUE, WashID |-> 0, err |-> DecodeErrText]

ParseRTCGetQueueResponse(message) ==
    IF message.kind = "xml" /\ message.root = "tc"
    THEN [isNil |-> FALSE, QueueItems |-> message.cars, err |-> NilErr]
    ELSE [isNil |-> TRUE, QueueItems |-> <<>>, err |-> DecodeErrText]

\* A nil *GetQueueResponse.
NilQueue == [isNil |-> TRUE, QueueItems |-> <<>>]

\* ------------------------------------------------------------- connection
\* The trace of a call: the network stages it attempted, in order.
Ev(trace, ev, ok, xml) == Append(trace, [ev |-> ev, ok |-> ok, xml |-> xml])

IsClose(e) == e.ev \in {"close", "deferClose"}

CloseCount(trace) == Cardinality({i \in 1..Len(trace) : IsClose(trace[i])})

\* Some Close of the connection has succeeded.
ConnClosed(trace) == \E i \in 1..Len(trace) : IsClose(trace[i]) /\ trace[i].ok

\* net.Conn.Close: the k-th Close of the call succeeds when the environment
\* lets it and the connection is not closed already.
Close(env, trace, ev) ==
    LET k == CloseCount(trace) + 1
        ok == ~ConnClosed(trace) /\ env.closes[k]
    IN [err |-> IF ok THEN NilErr ELSE CloseErrText,
        trace |-> Ev(trace, ev, ok, NoXML)]

StartConn(env, trace) ==
    [err |-> IF env.connect THEN NilErr ELSE ConnectErrText,
     trace |-> Ev(trace, "dial", env.connect, NoXML)]

\* fmt.Fprint's error is dropped.
WriteToRTC(env, trace, xml) == [trace |-> Ev(trace, "write", env.write, xml)]

\* strings.TrimSpace
TrimSpace(data) == data.body

\* ReadFromServer without its check of messageErr: whatever was read is
\* returned as the message.
ReadFromServerUnchecked(env, trace) ==
    [isNil |-> FALSE, msg |-> TrimSpace(env.read.data), err |-> NilErr,
     trace |-> Ev(trace, "read", env.read.kind # "error", NoXML)]

\* On a read error other than io.EOF this returns err, the error of
\* SetDeadline, not messageErr.
ReadFromServer(env, trace) ==
    LET err == IF env.deadline THEN NilErr ELSE DeadlineErrText
        failed == env.read.kind = "error"
        t == Ev(trace, "read", ~failed, NoXML)
    IN IF failed
       THEN [isNil |-> TRUE, msg |-> EmptyBody, err |-> err, trace |-> t]
       ELSE [isNil |-> FALSE, msg |-> TrimSpace(env.read.data), err |-> NilErr,
             trace |-> t]

\* Close; on failure SetDeadline(now), sleep 5 s, Close once more.
closeConnection(env, trace) ==
    LET c1 == Close(env, trace, "close")
    IN IF c1.err # NilErr
       THEN Close(env, Ev(c1.trace, "sleep", TRUE, NoXML), "close")
       ELSE c1

\* An operation without its defer client.Close().
DeferCloseOmitted(env, res) == res

\* defer client.Close(): runs when the operation returns or panics.
DeferClose(env, res) ==
    [res EXCEPT !.trace = Close(env, res.trace, "deferClose").trace]

\* ------------------------------------------------------------- results
Ret(washID, queue, record, err, trace) ==
    [status |-> "returned", washID |-> washID, queue |-> queue,
     record |-> record, err |-> err, trace |-> trace]

\* A nil dereference: the goroutine panics and nothing is returned.
Panic(trace) ==
    [status |-> "panicked", washID |-> 0, queue |-> NilQueue,
     record |-> <<>>, err |-> NilErr, trace |-> trace]

\* ------------------------------------------------------------- client
\* The second evolution of the client (rtc.go 374-812).

QueueWash(env) ==
    LET record0 == <<"QUEUE">>
        x == BuildAddTailXML(1)
        c == StartConn(env, <<>>)
    IN
    IF x.err # NilErr
    THEN Ret(-1, NilQueue,
             record0 \o <<ZeroTime, ZeroTime, ZeroTime, ZeroTime, "true", x.err>>,
             x.err, <<>>)
    ELSE IF c.err # NilErr
    THEN Ret(-1, NilQueue,
             record0 \o <<Now, ZeroTime, ZeroTime, Now, "true", c.err>>,
             c.err, c.trace)
    ELSE DeferClose(env,
        LET record1 == Append(record0, Now)
            w == WriteToRTC(env, c.trace, x.xml)
            record2 == Append(record1, Now)
            rd == ReadFromServer(env, w.trace)
        IN
        IF rd.err # NilErr
        THEN Ret(-1, NilQueue, record2 \o <<ZeroTime, Now, "true", rd.err>>,
                 rd.err, rd.trace)
        ELSE IF rd.isNil
        THEN LET cc == closeConnection(env, rd.trace)
                 record3 == IF cc.err # NilErr
                            THEN record2 \o <<Now, Now, "true", cc.err>>
                            ELSE record2
             IN Ret(-1, NilQueue, record3 \o <<Now, Now, "false", "">>,
                    NilErr, cc.trace)
        ELSE
        LET record3 == Append(record2, Now)
            cl == closeConnection(env, rd.trace)
        IN
        IF cl.err # NilErr
        THEN Ret(-1, NilQueue, record3 \o <<Now, "true", cl.err>>, cl.err, cl.trace)
        ELSE
        LET record4 == record3 \o <<Now, "false", "">>
            addResponse == ParseRTCAddQueueResponse(rd.msg)
            t == Ev(cl.trace, "decode", addResponse.err = NilErr, NoXML)
        IN
        IF addResponse.err # NilErr
        THEN Ret(-1, NilQueue, record4, NilErr, t)
        ELSE Ret(addResponse.WashID, NilQueue, record4, NilErr, t))

MoveWash(env, washID, toBefore) ==
    LET record0 == <<"MOVE">>
        x == BuildMoveXML(washID, toBefore)
        c == StartConn(env, <<>>)
    IN
    IF x.err # NilErr
    THEN Ret(0, NilQueue,
             record0 \o <<Now, ZeroTime, ZeroTime, Now, "true", x.err>>,
             x.err, <<>>)
    ELSE IF c.err # NilErr
    THEN Ret(0, NilQueue,
             record0 \o <<Now, ZeroTime, ZeroTime, Now, "true", c.err>>,
             c.err, c.trace)
    ELSE DeferClose(env,
        LET record1 == Append(record0, Now)
            w == WriteToRTC(env, c.trace, x.xml)
            record2 == Append(record1, Now)
            rd == ReadFromServer(env, w.trace)
        IN
        IF rd.err # NilErr
        THEN Ret(0, NilQueue, record2 \o <<ZeroTime, Now, "true", rd.err>>,
                 rd.err, rd.trace)
        ELSE IF rd.isNil
        THEN LET cc == closeConnection(env, rd.trace)
                 record3 == IF cc.err # NilErr
                            THEN record2 \o <<Now, Now, "true", cc.err>>
                            ELSE record2
             IN Ret(0, NilQueue, record3 \o <<Now, Now, "false", "">>,
                    NilErr, cc.trace)
        ELSE
        LET record3 == Append(record2, Now)
            cl == closeConnection(env, rd.trace)
        IN
        IF cl.err # NilErr
        THEN Ret(0, NilQueue, record3 \o <<Now, "true", cl.err>>, cl.err, cl.trace)
        ELSE
        LET record4 == record3 \o <<Now, "false", "">>
            resp == ParseRTCGetQueueResponse(rd.msg)
            t == Ev(cl.trace, "decode", resp.err = NilErr, NoXML)
        IN Ret(0, [isNil |-> resp.isNil, QueueItems |-> resp.QueueItems],
               record4, resp.err, t))

\* No read follows the write, and nothing is decoded.
DeleteQueuedCar(env, washID) ==
    LET record0 == <<"DELETE">>
        x == BuildDeleteXML(washID)
        c == StartConn(env, <<>>)
    IN
    IF x.err # NilErr
    THEN Ret(0, NilQueue,
             record0 \o <<Now, ZeroTime, ZeroTime, Now, "true", x.err>>,
             x.err, <<>>)
    ELSE IF c.err # NilErr
    THEN Ret(0, NilQueue,
             record0 \o <<Now, ZeroTime, ZeroTime, Now, "true", c.err>>,
             c.err, c.trace)
    ELSE DeferClose(env,
        LET record1 == Append(record0, Now)
            w == WriteToRTC(env, c.trace, x.xml)
            record2 == record1 \o <<Now, Now>>
            cl == closeConnection(env, w.trace)
        IN
        IF cl.err # NilErr
        THEN Ret(0, NilQueue, record2 \o <<Now, "true", cl.err>>, cl.err, cl.trace)
        ELSE Ret(0, NilQueue, record2 \o <<Now, "false", "">>, NilErr, cl.trace))

\* The log line before the return reads message.Queue: a nil message (a decode
\* failure) panics there.
GetQueue(env) ==
    LET record0 == <<"GET">>
        c == StartConn(env, <<>>)
    IN
    IF c.err # NilErr
    THEN Ret(0, NilQueue,
             record0 \o <<Now, ZeroTime, ZeroTime, Now, "true", c.err>>,
             c.err, c.trace)
    ELSE DeferClose(env,
        LET record1 == Append(record0, Now)
            w == WriteToRTC(env, c.trace, getQueueXML)
            record2 == Append(record1, Now)
            rd == ReadFromServer(env, w.trace)
        IN
        IF rd.err # NilErr
        THEN Ret(0, NilQueue, record2 \o <<ZeroTime, ZeroTime, "true", rd.err>>,
                 rd.err, rd.trace)
        ELSE IF rd.isNil
        THEN LET cc == closeConnection(env, rd.trace)
                 record3 == IF cc.err # NilErr
                            THEN record2 \o <<Now, Now, "true", cc.err>>
                            ELSE record2
             IN Ret(0, NilQueue, record3 \o <<Now, Now, "false", "">>,
                    NilErr, cc.trace)
        ELSE
        LET record3 == Append(record2, Now)
            cl == closeConnection(env, rd.trace)
        IN
        IF cl.err # NilErr
        THEN Ret(0, NilQueue, record3 \o <<ZeroTime, "true", cl.err>>,
                 cl.err, cl.trace)
        ELSE
        LET record4 == record3 \o <<Now, "false", "">>
            message == ParseRTCGetQueueResponse(rd.msg)
            t == Ev(cl.trace, "decode", message.err = NilErr, NoXML)
        IN
        IF message.isNil
        THEN Panic(t)
        ELSE Ret(0, [isNil |-> FALSE, QueueItems |-> message.QueueItems],
                 record4, message.err, t))

\* The first evolution of the client (rtc.go 1-372).  Its close-retry blocks
\* are the code that the second evolution also names closeConnection.

\* Returns no handle, and never looks at the message it read.
QueueWashV1(env) ==
    LET record0 == <<"QUEUE">>
        x == BuildAddTailXML(1)
        c == StartConn(env, <<>>)
    IN
    IF x.err # NilErr
    THEN Ret(0, NilQueue,
             record0 \o <<ZeroTime, ZeroTime, ZeroTime, ZeroTime, "true", x.err>>,
             x.err, <<>>)
    ELSE IF c.err # NilErr
    THEN Ret(0, NilQueue,
             record0 \o <<ZeroTime, ZeroTime, ZeroTime, ZeroTime, "true", c.err>>,
             c.err, c.trace)
    ELSE DeferClose(env,
        LET record1 == Append(record0, Now)
            w == WriteToRTC(env, c.trace, x.xml)
            record2 == Append(record1, Now)
            rd == ReadFromServer(env, w.trace)
        IN
        IF rd.err # NilErr
        THEN Ret(0, NilQueue, record2 \o <<ZeroTime, ZeroTime, "true", rd.err>>,
                 rd.err, rd.trace)
        ELSE
        LET record3 == Append(record2, Now)
            cl == closeConnection(env, rd.trace)
        IN
        IF cl.err # NilErr
        THEN Ret(0, NilQueue, record3 \o <<ZeroTime, "true", cl.err>>,
                 cl.err, cl.trace)
        ELSE Ret(0, NilQueue, record3 \o <<Now, "false", "">>, NilErr, cl.trace))

\* *readMessage after the close: a nil message panics there.
MoveWashV1(env, washID, toBefore) ==
    LET record0 == <<"MOVE">>
        x == BuildMoveXML(washID, toBefore)
        c == StartConn(env, <<>>)
    IN
    IF x.err # NilErr
    THEN Ret(0, NilQueue,
             record0 \o <<ZeroTime, ZeroTime, ZeroTime, ZeroTime, "true", x.err>>,
             x.err, <<>>)
    ELSE IF c.err # NilErr
    THEN Ret(0, NilQueue,
             record0 \o <<ZeroTime, ZeroTime, ZeroTime, ZeroTime, "true", c.err>>,
             c.err, c.trace)
    ELSE DeferClose(env,
        LET record1 == Append(record0, Now)
            w == WriteToRTC(env, c.trace, x.xml)
            record2 == Append(record1, Now)
            rd == ReadFromServer(env, w.trace)
        IN
        IF rd.err # NilErr
        THEN Ret(0, NilQueue, record2 \o <<ZeroTime, ZeroTime, "true", rd.err>>,
                 rd.err, rd.trace)
        ELSE
        LET record3 == Append(record2, Now)
            cl == closeConnection(env, rd.trace)
        IN
        IF cl.err # NilErr
        THEN Ret(0, NilQueue, record3 \o <<ZeroTime, "true", cl.err>>,
                 cl.err, cl.trace)
        ELSE IF rd.isNil
        THEN Panic(cl.trace)
        ELSE
        LET record4 == record3 \o <<Now, "false", "">>
            resp == ParseRTCGetQueueResponse(rd.msg)
            t == Ev(cl.trace, "decode", resp.err = NilErr, NoXML)
        IN Ret(0, [isNil |-> resp.isNil, QueueItems |-> resp.QueueItems],
               record4, resp.err, t))

\* The connect-failure branch calls xmlErr.Error() on the nil xmlErr: a panic.
DeleteQueuedCarV1(env, washID) ==
    LET record0 == <<"DELETE">>
        x == BuildDeleteXML(washID)
        c == StartConn(env, <<>>)
    IN
    IF x.err # NilErr
    THEN Ret(0, NilQueue,
             record0 \o <<ZeroTime, ZeroTime, ZeroTime, ZeroTime, "true", x.err>>,
             x.err, <<>>)
    ELSE IF c.err # NilErr
    THEN IF x.err = NilErr
         THEN Panic(c.trace)
         ELSE Ret(0, NilQueue,
                  record0 \o <<ZeroTime, ZeroTime, ZeroTime, ZeroTime, "true", x.err>>,
                  c.err, c.trace)
    ELSE DeferClose(env,
        LET record1 == Append(record0, Now)
            w == WriteToRTC(env, c.trace, x.xml)
            record2 == record1 \o <<Now, Now>>
            cl == closeConnection(env, w.trace)
        IN
        IF cl.err # NilErr
        THEN Ret(0, NilQueue, record2 \o <<ZeroTime, "true", cl.err>>,
                 cl.err, cl.trace)
        ELSE Ret(0, NilQueue, record2 \o <<Now, "false", "">>, NilErr, cl.trace))

GetQueueV1(env) ==
    LET record0 == <<"GET">>
        c == StartConn(env, <<>>)
    IN
    IF c.err # NilErr
    THEN Ret(0, NilQueue,
             record0 \o <<ZeroTime, ZeroTime, ZeroTime, ZeroTime, "true", c.err>>,
             c.err, c.trace)
    ELSE DeferClose(env,
        LET record1 == Append(record0, Now)
            w == WriteToRTC(env, c.trace, getQueueXML)
            record2 == Append(record1, Now)
            rd == ReadFromServer(env, w.trace)
        IN
        IF rd.err # NilErr
        THEN Ret(0, NilQueue, record2 \o <<ZeroTime, ZeroTime, "true", rd.err>>,
                 rd.err, rd.trace)
        ELSE
        LET record3 == Append(record2, Now)
            cl == closeConnection(env, rd.trace)
        IN
        IF cl.err # NilErr
        THEN Ret(0, NilQueue, record3 \o <<ZeroTime, "true", cl.err>>,
                 cl.err, cl.trace)
        ELSE IF rd.isNil
        THEN Panic(cl.trace)
        ELSE
        LET record4 == record3 \o <<Now, "false", "">>
            message == ParseRTCGetQueueResponse(rd.msg)
            t == Ev(cl.trace, "decode", message.err = NilErr, NoXML)
        IN Ret(0, [isNil |-> message.isNil, QueueItems |-> message.QueueItems],
               record4, message.err, t))

\* ------------------------------------------------------------- state
VARIABLES
    call,       \* the client operation under test: its inputs and its result
    loops,      \* per routine, the goroutines running its Run loop
    tickers,    \* per routine, every ticker made for it; the last is r.Ticker
    handlers,   \* the HTTP requests, in order of arrival
    writers,    \* the goroutines running Writer.Write, by where they stand
    records,    \* Writer.Records, the buffered channel
    csv,        \* the rows written to the csv writer
    produced,   \* how many records have been sent on Writer.Records
    ticks,      \* how many ticks the tickers have delivered
    crashed     \* a goroutine has panicked: the process is gone

clientVars == <<call>>
schedVars ==
    <<loops, tickers, handlers, writers, records, csv, produced, ticks, crashed>>
vars == <<call, loops, tickers, handlers, writers, records, csv, produced, ticks,
          crashed>>

Versions == {1, 2}
ArgWashIDs == {-1, 0} \cup Handles \cup 1..MaxCars
ArgBefores == 0..(MaxCars - 1)

NoEnv ==
    [connect |-> FALSE, write |-> FALSE, deadline |-> FALSE,
     read |-> [kind |-> "error", data |-> [body |-> EmptyBody, nl |-> FALSE]],
     closes |-> [k \in 1..3 |-> FALSE]]

IdleCall ==
    [phase |-> "idle", op |-> "", ver |-> 0, env |-> NoEnv,
     res |-> Ret(0, NilQueue, <<>>, NilErr, <<>>)]

CallDone(op, ver, env, res) ==
    [phase |-> "done", op |-> op, ver |-> ver, env |-> env, res |-> res]

InitClient == call = IdleCall

CallQueueWash ==
    /\ call.phase = "idle"
    /\ \E ver \in Versions, env \in Envs :
          call' = CallDone("QUEUE", ver, env,
                           IF ver = 1 THEN QueueWashV1(env) ELSE QueueWash(env))
    /\ UNCHANGED schedVars

CallMoveWash ==
    /\ call.phase = "idle"
    /\ \E ver \in Versions, env \in Envs, w \in ArgWashIDs, b \in ArgBefores :
          call' = CallDone("MOVE", ver, env,
                           IF ver = 1 THEN MoveWashV1(env, w, b)
                           ELSE MoveWash(env, w, b))
    /\ UNCHANGED schedVars

CallDeleteQueuedCar ==
    /\ call.phase = "idle"
    /\ \E ver \in Versions, env \in Envs, w \in ArgWashIDs :
          call' = CallDone("DELETE", ver, env,
                           IF ver = 1 THEN DeleteQueuedCarV1(env, w)
                           ELSE DeleteQueuedCar(env, w))
    /\ UNCHANGED schedVars

CallGetQueue ==
    /\ call.phase = "idle"
    /\ \E ver \in Versions, env \in Envs :
          call' = CallDone("GET", ver, env,
                           IF ver = 1 THEN GetQueueV1(env) ELSE GetQueue(env))
    /\ UNCHANGED schedVars

\* The caller has taken the result; the client keeps nothing of the call.
CallReturn ==
    /\ call.phase = "done"
    /\ call' = IdleCall
    /\ UNCHANGED schedVars

NextClient ==
    \/ CallQueueWash
    \/ CallMoveWash
    \/ CallDeleteQueuedCar
    \/ CallGetQueue
    \/ CallReturn

\* ------------------------------------------------------------- client claims
Finished == call.phase = "done"
Returned == Finished /\ call.res.status = "returned"
Trace == call.res.trace
Record == call.res.record

\* A timestamp field that holds no time: empty, or the zero time.
NoStamp(s) == s \in {"", ZeroTime}

HasEv(ev) == \E i \in 1..Len(Trace) : Trace[i].ev = ev
FailedEv(ev) == \E i \in 1..Len(Trace) : Trace[i].ev = ev /\ ~Trace[i].ok
CloseIdx == {i \in 1..Len(Trace) : IsClose(Trace[i])}
FirstClose == CHOOSE i \in CloseIdx : \A j \in CloseIdx : i <= j

Rank(e) ==
    CASE e.ev = "dial" -> 1
      [] e.ev = "write" -> 2
      [] e.ev = "read" -> 3
      [] e.ev = "decode" -> 5
      [] OTHER -> 4

\* The close after the grace period.
IsRetry(i) ==
    /\ Trace[i].ev = "close"
    /\ \E j \in 1..(i - 1) : Trace[j].ev = "sleep"

\* A stage that failed: the dial, the write, the read, or the close with its
\* retry.
StageFailed(i) ==
    /\ ~Trace[i].ok
    /\ \/ Trace[i].ev \in {"dial", "write", "read"}
       \/ IsRetry(i)

\* C1: every record an operation returns has exactly 7 fields.
C1_SevenFields == Returned => Len(Record) = 7

\* C4: when the dial fails the operation returns a record whose four
\* timestamps (fields 2-5) hold no time and whose error flag is "true".
C4_ConnectFailure ==
    (Finished /\ ~call.env.connect) =>
        /\ Returned
        /\ Len(Record) = 7
        /\ \A i \in 2..5 : NoStamp(Record[i])
        /\ Record[6] = "true"

\* C5 as claimed: the stages come in the order Connect, Write, Read, Close,
\* Decode, nothing of a later stage is attempted once a stage has failed, and
\* Connect is attempted at most once.
C5_Original ==
    Finished =>
        /\ \A i, j \in 1..Len(Trace) : i < j => Rank(Trace[i]) <= Rank(Trace[j])
        /\ \A i, j \in 1..Len(Trace) :
              (i < j /\ StageFailed(i)) => Rank(Trace[j]) <= Rank(Trace[i])
        /\ Cardinality({i \in 1..Len(Trace) : Trace[i].ev = "dial"}) <= 1

\* C5 as amended: Connect is attempted once, first; when it fails nothing else
\* is attempted; otherwise the stages come in the order Write, Read, Close,
\* Decode except for the deferred Close, which is attempted last on every
\* path; and no Decode follows a failed Read or a failed Close retry.
C5_StageOrder ==
    Finished =>
        /\ \A i \in 1..Len(Trace) : Trace[i].ev = "dial" <=> i = 1
        /\ ~call.env.connect => Len(Trace) = 1
        /\ call.env.connect =>
              /\ Trace[Len(Trace)].ev = "deferClose"
              /\ \A i \in 1..(Len(Trace) - 1) : Trace[i].ev # "deferClose"
        /\ \A i, j \in 1..Len(Trace) :
              (i < j /\ Trace[j].ev # "deferClose") =>
                  Rank(Trace[i]) <= Rank(Trace[j])
        /\ \A i, j \in 1..Len(Trace) :
              (i < j /\ ~Trace[i].ok /\ (Trace[i].ev = "read" \/ IsRetry(i))) =>
                  Trace[j].ev # "decode"

\* A call whose write failed and whose read failed: the read was attempted all
\* the same, nothing was decoded, and the deferred Close came last.
C5_Witness ==
    /\ Finished
    /\ call.env.connect
    /\ FailedEv("write")
    /\ FailedEv("read")
    /\ ~HasEv("decode")
    /\ Trace[Len(Trace)].ev = "deferClose"

\* C6: a read that ends at end-of-stream with zero bytes makes QueueWash,
\* MoveWash and GetQueue return success: no error, error flag "false", no
\* crash (the connection closing normally).
C6_EmptyReadIsSuccess ==
    (/\ Finished
     /\ call.op \in {"QUEUE", "MOVE", "GET"}
     /\ call.env.connect
     /\ call.env.read.kind = "eof"
     /\ call.env.read.data.body = EmptyBody
     /\ call.env.closes[1]) =>
        /\ Returned
        /\ call.res.err = NilErr
        /\ Record[6] = "false"

\* C7: a read error other than end-of-stream makes the operation return an
\* error and a record flagged "true" whose response-retrieved and
\* connection-closed timestamps hold no time.
C7_ReadErrorReported ==
    (/\ Finished
     /\ call.op \in {"QUEUE", "MOVE", "GET"}
     /\ call.env.connect
     /\ call.env.read.kind = "error") =>
        /\ Returned
        /\ call.res.err # NilErr
        /\ Len(Record) = 7
        /\ Record[6] = "true"
        /\ NoStamp(Record[4])
        /\ NoStamp(Record[5])

\* C8: when the first Close of a connection fails it is retried exactly once,
\* after the grace period; a failed retry is reported (flag "true"), a Close
\* that succeeds at either attempt leaves flag "false" and an empty message;
\* and a connection sees no more Close calls than the first and that retry.
C8_CloseRetry ==
    (Finished /\ call.env.connect) =>
        /\ CloseCount(Trace) <= 2
        /\ (CloseIdx # {} /\ ~Trace[FirstClose].ok) =>
              /\ Cardinality({i \in CloseIdx : i > FirstClose}) = 1
              /\ \E i \in CloseIdx : i > FirstClose /\ IsRetry(i)
        /\ (~call.env.closes[1] /\ ~call.env.closes[2]) =>
              Returned /\ Record[6] = "true" /\ call.res.err # NilErr
        /\ (/\ Returned
            /\ call.env.read.kind # "error"
            /\ (call.env.closes[1] \/ call.env.closes[2])) =>
              (Record[6] = "false" /\ Record[7] = "")

\* C9: an operation that connected has attempted a Close on that connection
\* by the time it returns or panics.
C9_ConnectionTornDown ==
    (Finished /\ call.env.connect) => CloseCount(Trace) >= 1

\* A call whose read failed with an error: it returned early, and the only
\* Close is the deferred one.
C9_Witness ==
    /\ Returned
    /\ call.env.connect
    /\ call.res.err = DeadlineErrText
    /\ CloseCount(Trace) = 1
    /\ ~HasEv("decode")

\* C10: a decode failure is returned as the operation's error, with the
\* completed record (7 fields, flag "false"), and no network stage is run
\* again after it.
C10_DecodeFailureReported ==
    (Finished /\ FailedEv("decode")) =>
        /\ Returned
        /\ call.res.err # NilErr
        /\ Len(Record) = 7
        /\ Record[6] = "false"
        /\ \A i, j \in 1..Len(Trace) :
              (i < j /\ Trace[i].ev = "decode") =>
                  Trace[j].ev \notin {"dial", "write", "read"}

\* ------------------------------------------------------------- scheduler
\* How many HTTP requests arrive.
MaxOps == 2
\* How many ticks the tickers deliver in all.
MaxTicks == 2
\* How many ticks and requests there are in all.
MaxEvents == 3
\* The capacity of Writer.Records (100 in main; smaller here).
RecordsCap == 1

Routines == {"queue", "get", "move"}
LoopIds == 1..(MaxOps + 1)
HandlerIds == 1..MaxOps

\* A time.Duration: whole seconds and nanoseconds.
Dur(sec, nsec) == [sec |-> sec, nsec |-> nsec]
Positive(d) == d.sec > 0 \/ (d.sec = 0 /\ d.nsec > 0)

\* The -queue, -get and -move flags' defaults, in seconds.
QueueDefault == 2
GetDefault == 4
MoveDefault == 6
\* The ticker a handler falls back to when UpdateTime fails, in seconds.
FallbackSeconds == 2

\* time.NewTicker: the ticker's channel holds at most one tick.
NewTicker(d) == [d |-> d, ready |-> FALSE]

\* The text of an interval in a request path: not a number, or a number of
\* seconds given here in microseconds.
NoText == [numeric |-> FALSE, micros |-> 0]
Seconds(n) == [numeric |-> TRUE, micros |-> n * 1000000]
IntervalTexts == {NoText, Seconds(0), Seconds(2)}
\* The text of a request that has not come to parse it.
Unread == [numeric |-> FALSE, micros |-> -1]

\* strconv.ParseFloat
ParseFloat(text) == [err |-> ~text.numeric, micros |-> text.micros]

\* The duration UpdateTime makes of t seconds: t is printed with %f and the
\* unit ns, us or ms when t < 1, s otherwise, and parsed by time.ParseDuration.
UpdateTimeDuration(micros) ==
    IF micros >= 1000000
    THEN Dur(micros \div 1000000, (micros % 1000000) * 1000)
    ELSE IF micros >= 10000 THEN Dur(0, micros)
    ELSE IF micros >= 1000 THEN Dur(0, micros \div 1000)
    ELSE IF micros >= 0 THEN Dur(0, 0)
    ELSE Dur(0, 0 - ((0 - micros) \div 1000000))

\* What the scheduler handles of a Timing Record: it passes the record on
\* unread, so a record is told apart here by its operation label and its
\* number of fields; what the fields hold is the client's business.
Row(record) ==
    IF record = <<>> THEN <<>> ELSE <<record[1], Len(record)>>

\* What a caller sees of a client operation.
Outcome(res) ==
    [status |-> res.status, washID |-> res.washID, queue |-> res.queue,
     record |-> Row(res.record), err |-> res.err]

QueueWashOutcomes == {Outcome(QueueWash(e)) : e \in Envs}
GetQueueOutcomes == {Outcome(GetQueue(e)) : e \in Envs}
MoveWashOutcomes ==
    [w \in ArgWashIDs |->
        [b \in ArgBefores |-> {Outcome(MoveWash(e, w, b)) : e \in Envs}]]
DeleteQueuedCarOutcomes ==
    [w \in ArgWashIDs |-> {Outcome(DeleteQueuedCar(e, w)) : e \in Envs}]

\* A goroutine in a routine's Run: at the select ("wait"), or in the body of
\* a tick with the client call `step` next ("call"); a call's outcome is
\* drawn when its record is sent.  host is the handler whose goroutine it
\* runs on, 0 for a goroutine of its own.
IdleLoop ==
    [pc |-> "none", tk |-> 0, step |-> "", washID |-> 0, n |-> 0, before |-> 0,
     host |-> 0]

Running(l) == l.pc \in {"wait", "call"}
Executing(l) == l.pc = "call"

IdleHandler ==
    [op |-> "", pc |-> "idle", cur |-> "", texts |-> [r \in Routines |-> Unread],
     status |-> 0, items |-> <<>>, k |-> 0, logged |-> FALSE]

\* A handler that panicked: the server recovers and the request is over.
Died(op) == [IdleHandler EXCEPT !.op = op, !.pc = "panicked"]

\* A request is known by its path, so an interval update keeps its texts when
\* it is over.
Over(hd, pc, status) ==
    [IdleHandler EXCEPT !.op = hd.op, !.pc = pc, !.status = status,
                        !.texts = hd.texts]

FreeSlot(ls) ==
    CHOOSE i \in LoopIds : ~Running(ls[i]) /\ \A j \in 1..(i - 1) : Running(ls[j])

\* A loop at its select, listening on the ticker that is r.Ticker now.
AtSelect(tk, host) == [IdleLoop EXCEPT !.pc = "wait", !.tk = tk, !.host = host]

\* Run is entered: one more loop of the routine.
Run(ls, tk, host) == [ls EXCEPT ![FreeSlot(ls)] = AtSelect(tk, host)]

\* The ticks delivered and the requests received so far.
Events == ticks + Cardinality({h \in HandlerIds : handlers[h].pc # "idle"})

FirstStep(r) == IF r = "get" THEN "GET" ELSE "QUEUE"

Init ==
    /\ InitClient
    /\ tickers = [r \in Routines |->
                    <<NewTicker(Dur(CASE r = "queue" -> QueueDefault
                                      [] r = "get" -> GetDefault
                                      [] OTHER -> MoveDefault, 0))>>]
    /\ loops = [r \in Routines |->
                  Run([i \in LoopIds |-> IdleLoop], 1, 0)]
    /\ handlers = [h \in HandlerIds |-> IdleHandler]
    /\ writers = [sel |-> 1, rcv |-> 0, held |-> {}]
    /\ records = <<>>
    /\ csv = <<>>
    /\ produced = 0
    /\ ticks = 0
    /\ crashed = FALSE

\* ------------------------------------------------------------- tickers
\* No ticker is ever stopped, so every ticker made for a routine keeps
\* firing.  A tick can be received when the ticker is the routine's current
\* one or a loop is at its select on it.
Heard(r, k) ==
    \/ k = Len(tickers[r])
    \/ \E i \in LoopIds : loops[r][i].pc = "wait" /\ loops[r][i].tk = k

\* A ticker fires; a tick that finds the channel full, or that nothing can
\* receive, changes nothing.
Tick(r, k) ==
    /\ ~crashed
    /\ ticks < MaxTicks
    /\ Events < MaxEvents
    /\ k \in 1..Len(tickers[r])
    /\ Heard(r, k)
    /\ ~tickers[r][k].ready
    /\ tickers' = [tickers EXCEPT ![r][k].ready = TRUE]
    /\ ticks' = ticks + 1
    /\ UNCHANGED <<call, loops, handlers, writers, records, csv, produced, crashed>>

\* ------------------------------------------------------------- routines
\* A panic in a loop: on a goroutine of its own it ends the process; on a
\* handler's goroutine net/http recovers it and only that request dies.
Panicked(r, i) ==
    IF loops[r][i].host = 0
    THEN /\ crashed' = TRUE
         /\ UNCHANGED <<loops, handlers>>
    ELSE /\ loops' = [loops EXCEPT ![r][i].pc = "stopped"]
         /\ handlers' = [handlers EXCEPT ![loops[r][i].host] = Over(@, "panicked", 0)]
         /\ UNCHANGED crashed

\* case <-Ticker.C
LoopTick(r, i) ==
    /\ ~crashed
    /\ loops[r][i].pc = "wait"
    /\ tickers[r][loops[r][i].tk].ready
    /\ tickers' = [tickers EXCEPT ![r][loops[r][i].tk].ready = FALSE]
    /\ loops' = [loops EXCEPT ![r][i].pc = "call", ![r][i].step = FirstStep(r)]
    /\ UNCHANGED <<call, handlers, writers, records, csv, produced, ticks, crashed>>

\* writer.Records <- records: the send blocks while the channel is full, so
\* the step that sends waits for room.
Send(record) ==
    /\ Len(records) < RecordsCap
    /\ records' = Append(records, [rec |-> record, n |-> produced + 1])
    /\ produced' = produced + 1

NoSend == UNCHANGED <<records, produced>>

\* client.QueueWash(req) and what the loop does with what it returns: the
\* queue routine sends the record only when the call failed.
LoopQueueWash(r, i) ==
    /\ ~crashed
    /\ loops[r][i].pc = "call"
    /\ loops[r][i].step = "QUEUE"
    /\ LET l == loops[r][i]
       IN \E o \in QueueWashOutcomes :
             IF o.err # NilErr
             THEN /\ Send(o.record)
                  /\ loops' = [loops EXCEPT ![r][i] = AtSelect(Len(tickers[r]), l.host)]
             ELSE IF r = "queue"
             THEN /\ NoSend
                  /\ loops' = [loops EXCEPT ![r][i] =
                        [l EXCEPT !.step = "DELETE", !.washID = o.washID]]
             ELSE /\ Send(o.record)
                  /\ loops' = [loops EXCEPT ![r][i] =
                        [l EXCEPT !.step = "GET", !.washID = o.washID]]
    /\ UNCHANGED <<call, tickers, handlers, writers, csv, ticks, crashed>>

\* client.GetQueue(): the move routine goes back to its select without a
\* record when the queue is nil.
LoopGetQueue(r, i) ==
    /\ ~crashed
    /\ loops[r][i].pc = "call"
    /\ loops[r][i].step = "GET"
    /\ LET l == loops[r][i]
       IN \E o \in GetQueueOutcomes :
             IF o.status = "panicked"
             THEN Panicked(r, i) /\ NoSend
             ELSE /\ IF r = "get" \/ o.err # NilErr
                     THEN /\ Send(o.record)
                          /\ loops' = [loops EXCEPT ![r][i] =
                                AtSelect(Len(tickers[r]), l.host)]
                     ELSE IF o.queue.isNil
                     THEN /\ NoSend
                          /\ loops' = [loops EXCEPT ![r][i] =
                                AtSelect(Len(tickers[r]), l.host)]
                     ELSE /\ Send(o.record)
                          /\ loops' = [loops EXCEPT ![r][i] =
                                [l EXCEPT !.step = "MOVE",
                                          !.n = Len(o.queue.QueueItems)]]
                  /\ UNCHANGED <<handlers, crashed>>
    /\ UNCHANGED <<call, tickers, writers, csv, ticks>>

\* MoveWash with a target up to the length of the queue, one past its last
\* position.
LoopMoveWashPastEnd(r, i) ==
    /\ ~crashed
    /\ loops[r][i].pc = "call"
    /\ loops[r][i].step = "MOVE"
    /\ LET l == loops[r][i]
       IN IF l.n = 0
          THEN Panicked(r, i) /\ NoSend
          ELSE /\ \E before \in 0..l.n :
                  /\ \E rec \in {o.record : o \in MoveWashOutcomes[l.washID][0]} :
                        Send(rec)
                  /\ loops' = [loops EXCEPT ![r][i] =
                        [l EXCEPT !.step = "DELETE", !.n = 0, !.before = before]]
               /\ UNCHANGED <<handlers, crashed>>
    /\ UNCHANGED <<call, tickers, writers, csv, ticks>>

\* r.Intn(numWashes), which panics when numWashes is 0, and client.MoveWash(p);
\* the loop keeps the target it has drawn, and is done with the queue's length.
LoopMoveWash(r, i) ==
    /\ ~crashed
    /\ loops[r][i].pc = "call"
    /\ loops[r][i].step = "MOVE"
    /\ LET l == loops[r][i]
       IN IF l.n = 0
          THEN Panicked(r, i) /\ NoSend
          ELSE /\ \E before \in 0..(l.n - 1) :
                  /\ \E rec \in {o.record : o \in MoveWashOutcomes[l.washID][before]} :
                        Send(rec)
                  /\ loops' = [loops EXCEPT ![r][i] =
                        [l EXCEPT !.step = "DELETE", !.n = 0, !.before = before]]
               /\ UNCHANGED <<handlers, crashed>>
    /\ UNCHANGED <<call, tickers, writers, csv, ticks>>

\* client.DeleteQueuedCar(washID), the last call of a tick.
LoopDeleteQueuedCar(r, i) ==
    /\ ~crashed
    /\ loops[r][i].pc = "call"
    /\ loops[r][i].step = "DELETE"
    /\ \E rec \in {o.record : o \in DeleteQueuedCarOutcomes[loops[r][i].washID]} :
          Send(rec)
    /\ loops' = [loops EXCEPT ![r][i] = AtSelect(Len(tickers[r]), loops[r][i].host)]
    /\ UNCHANGED <<call, tickers, handlers, writers, csv, ticks, crashed>>

\* ------------------------------------------------------------- writer
\* case <-w.Records: the record received here is not kept.
WriterSelectRecord ==
    /\ ~crashed
    /\ writers.sel > 0
    /\ records # <<>>
    /\ records' = Tail(records)
    /\ writers' = [writers EXCEPT !.sel = @ - 1, !.rcv = @ + 1]
    /\ UNCHANGED <<call, loops, tickers, handlers, csv, produced, ticks, crashed>>

\* record := <-w.Records; w.Writer.Write(record)
WriterWrite ==
    /\ ~crashed
    /\ writers.rcv > 0
    /\ records # <<>>
    /\ csv' = Append(csv, Head(records))
    /\ records' = Tail(records)
    /\ writers' = [writers EXCEPT !.sel = @ + 1, !.rcv = @ - 1]
    /\ UNCHANGED <<call, loops, tickers, handlers, produced, ticks, crashed>>

\* record := <-w.Records alone, by one of several consumers: the record is
\* held by its goroutine until w.Writer.Write(record), and another consumer
\* can receive and write meanwhile.  A single consumer's receive and write
\* are the one step WriterWrite, nothing else touching the store between them.
\* These two steps are taken where the sink is looked at (SpecSink).
WriterReceive ==
    /\ ~crashed
    /\ writers.rcv > 0
    /\ writers.sel + writers.rcv + Cardinality(writers.held) > 1
    /\ records # <<>>
    /\ records' = Tail(records)
    /\ writers' = [writers EXCEPT !.rcv = @ - 1, !.held = @ \cup {Head(records)}]
    /\ UNCHANGED <<call, loops, tickers, handlers, csv, produced, ticks, crashed>>

\* w.Writer.Write(record) of a record that was held.
WriterWriteHeld ==
    /\ ~crashed
    /\ \E x \in writers.held :
          /\ csv' = Append(csv, x)
          /\ writers' = [writers EXCEPT !.sel = @ + 1, !.held = @ \ {x}]
    /\ UNCHANGED <<call, loops, tickers, handlers, records, produced, ticks,
                   crashed>>

\* ------------------------------------------------------------- handlers
\* Requests come one at a time, numbered in order of arrival: h is the next
\* one, sent once the request before it has been answered, has died, or has
\* been left running the queue routine (UpdateQueueTime).
Arrives(h) ==
    /\ ~crashed
    /\ Events < MaxEvents
    /\ handlers[h].pc = "idle"
    /\ \A j \in 1..(h - 1) : handlers[j].pc \in {"done", "panicked", "running"}

Responded(op, status) == [IdleHandler EXCEPT !.op = op, !.pc = "done", !.status = status]

\* The handler is blocked sending true on the Done channel of `target`.
SendPc(target) ==
    CASE target = "queue" -> "sendQueue"
      [] target = "get" -> "sendGet"
      [] target = "move" -> "sendMove"
      [] OTHER -> "sendWriter"

\* RunAll's three go statements, each loop listening on its routine's ticker.
RunAll(ls, tks) == [r \in Routines |-> Run(ls[r], Len(tks[r]), 0)]

StartAll(h) ==
    /\ Arrives(h)
    /\ loops' = RunAll(loops, tickers)
    /\ writers' = [writers EXCEPT !.sel = @ + 1]
    /\ handlers' = [handlers EXCEPT ![h] = Responded("StartAll", 200)]
    /\ UNCHANGED <<call, tickers, records, csv, produced, ticks, crashed>>

StopAll(h) ==
    /\ Arrives(h)
    /\ handlers' = [handlers EXCEPT ![h] =
          [IdleHandler EXCEPT !.op = "StopAll", !.pc = "sendQueue"]]
    /\ UNCHANGED <<call, loops, tickers, writers, records, csv, produced, ticks,
                   crashed>>

StartGet(h) ==
    /\ Arrives(h)
    /\ loops' = [loops EXCEPT !["get"] = Run(@, Len(tickers["get"]), 0)]
    /\ handlers' = [handlers EXCEPT ![h] = Responded("StartGet", 200)]
    /\ UNCHANGED <<call, tickers, writers, records, csv, produced, ticks, crashed>>

StopQueueAndMove(h) ==
    /\ Arrives(h)
    /\ handlers' = [handlers EXCEPT ![h] =
          [IdleHandler EXCEPT !.op = "StopQueueAndMove", !.pc = "sendQueue"]]
    /\ UNCHANGED <<call, loops, tickers, writers, records, csv, produced, ticks,
                   crashed>>

\* A start of the queue and move routines that runs all three.
StartQueueAndMoveRunAll(h) ==
    /\ Arrives(h)
    /\ loops' = RunAll(loops, tickers)
    /\ handlers' = [handlers EXCEPT ![h] = Responded("StartQueueAndMove", 200)]
    /\ UNCHANGED <<call, tickers, writers, records, csv, produced, ticks, crashed>>

StartQueueAndMove(h) ==
    /\ Arrives(h)
    /\ loops' = [loops EXCEPT !["queue"] = Run(@, Len(tickers["queue"]), 0),
                              !["move"] = Run(@, Len(tickers["move"]), 0)]
    /\ handlers' = [handlers EXCEPT ![h] = Responded("StartQueueAndMove", 200)]
    /\ UNCHANGED <<call, tickers, writers, records, csv, produced, ticks, crashed>>

\* An interval update starts with UpdateTime's send on Done.  Nothing reads
\* the text in the request's path before UpdateTime parses it, so the text is
\* drawn there.
UpdateQueueTime(h) ==
    /\ Arrives(h)
    /\ handlers' = [handlers EXCEPT ![h] =
          [IdleHandler EXCEPT !.op = "UpdateQueueTime", !.pc = "sendQueue"]]
    /\ UNCHANGED <<call, loops, tickers, writers, records, csv, produced, ticks,
                   crashed>>

UpdateMoveTime(h) ==
    /\ Arrives(h)
    /\ handlers' = [handlers EXCEPT ![h] =
          [IdleHandler EXCEPT !.op = "UpdateMoveTime", !.pc = "sendMove"]]
    /\ UNCHANGED <<call, loops, tickers, writers, records, csv, produced, ticks,
                   crashed>>

UpdateGetTime(h) ==
    /\ Arrives(h)
    /\ handlers' = [handlers EXCEPT ![h] =
          [IdleHandler EXCEPT !.op = "UpdateGetTime", !.pc = "sendGet"]]
    /\ UNCHANGED <<call, loops, tickers, writers, records, csv, produced, ticks,
                   crashed>>

UpdateAllTimes(h) ==
    /\ Arrives(h)
    /\ handlers' = [handlers EXCEPT ![h] =
          [IdleHandler EXCEPT !.op = "UpdateAllTimes", !.pc = "sendQueue"]]
    /\ UNCHANGED <<call, loops, tickers, writers, records, csv, produced, ticks,
                   crashed>>

\* Where a handler goes on once its send on a Done channel has been received.
AfterDone(hd) ==
    CASE hd.op = "StopAll" /\ hd.pc = "sendQueue" -> [hd EXCEPT !.pc = "sendGet"]
      [] hd.op = "StopAll" /\ hd.pc = "sendGet" -> [hd EXCEPT !.pc = "sendMove"]
      [] hd.op = "StopAll" /\ hd.pc = "sendMove" -> [hd EXCEPT !.pc = "sendWriter"]
      [] hd.op = "StopAll" /\ hd.pc = "sendWriter" -> Responded("StopAll", 302)
      [] hd.op = "StopQueueAndMove" /\ hd.pc = "sendQueue" ->
            [hd EXCEPT !.pc = "sendMove"]
      [] hd.op = "StopQueueAndMove" /\ hd.pc = "sendMove" ->
            Responded("StopQueueAndMove", 302)
      [] OTHER ->
            [hd EXCEPT !.pc = "update",
                       !.cur = CASE hd.pc = "sendQueue" -> "queue"
                                 [] hd.pc = "sendGet" -> "get"
                                 [] OTHER -> "move"]

\* A send on Done that a loop receives wherever it is, in the body of a tick
\* too.
LoopDoneMidCall(r, i, h) ==
    /\ ~crashed
    /\ Running(loops[r][i])
    /\ handlers[h].pc = SendPc(r)
    /\ loops' = [loops EXCEPT ![r][i].pc = "stopped"]
    /\ handlers' = [j \in HandlerIds |->
          IF j = h THEN AfterDone(handlers[h])
          ELSE IF j = loops[r][i].host
          THEN Over(handlers[j], "done", 200)
          ELSE handlers[j]]
    /\ UNCHANGED <<call, tickers, writers, records, csv, produced, ticks, crashed>>

\* case <-Done in a routine's select, together with the handler's send: Done
\* is unbuffered.  Run returns; a loop that ran on a handler's goroutine
\* (UpdateQueueTime) lets that handler finish.
LoopDone(r, i, h) ==
    /\ ~crashed
    /\ loops[r][i].pc = "wait"
    /\ handlers[h].pc = SendPc(r)
    /\ loops' = [loops EXCEPT ![r][i].pc = "stopped"]
    /\ handlers' = [j \in HandlerIds |->
          IF j = h THEN AfterDone(handlers[h])
          ELSE IF j = loops[r][i].host
          THEN Over(handlers[j], "done", 200)
          ELSE handlers[j]]
    /\ UNCHANGED <<call, tickers, writers, records, csv, produced, ticks, crashed>>

\* case <-w.Done in Writer.Write, together with StopAll's send.
WriterDone(h) ==
    /\ ~crashed
    /\ writers.sel > 0
    /\ handlers[h].pc = "sendWriter"
    /\ writers' = [writers EXCEPT !.sel = @ - 1]
    /\ handlers' = [handlers EXCEPT ![h] = AfterDone(@)]
    /\ UNCHANGED <<call, loops, tickers, records, csv, produced, ticks, crashed>>

\* UpdateTime after its send on Done, and what the handler does next: on a
\* text that is no number the handler makes the fallback ticker; otherwise
\* UpdateTime makes the ticker, and time.NewTicker panics when the duration is
\* not positive.  Then the routine is run again: on the handler's own
\* goroutine in UpdateQueueTime, on a new one in UpdateMoveTime and
\* UpdateGetTime, and by RunAll once all three are done in UpdateAllTimes.
UpdateTime(h, s) ==
    /\ ~crashed
    /\ handlers[h].pc = "update"
    /\ LET r == handlers[h].cur
           hd == [handlers[h] EXCEPT !.texts[r] = s]
           t == ParseFloat(s)
           d == IF t.err THEN Dur(FallbackSeconds, 0) ELSE UpdateTimeDuration(t.micros)
           tks == [tickers EXCEPT ![r] = Append(@, NewTicker(d))]
       IN IF ~Positive(d)
          THEN /\ handlers' = [handlers EXCEPT ![h] = Over(hd, "panicked", 0)]
               /\ UNCHANGED <<loops, tickers, writers>>
          ELSE /\ tickers' = tks
               /\ CASE hd.op = "UpdateQueueTime" ->
                         /\ loops' = [loops EXCEPT ![r] = Run(@, Len(tks[r]), h)]
                         /\ handlers' = [handlers EXCEPT ![h] = Over(hd, "running", 0)]
                         /\ UNCHANGED writers
                    [] hd.op \in {"UpdateMoveTime", "UpdateGetTime"} ->
                         /\ loops' = [loops EXCEPT ![r] = Run(@, Len(tks[r]), 0)]
                         /\ handlers' = [handlers EXCEPT ![h] = Over(hd, "done", 200)]
                         /\ UNCHANGED writers
                    [] hd.op = "UpdateAllTimes" /\ r = "queue" ->
                         /\ handlers' = [handlers EXCEPT ![h] = [hd EXCEPT !.pc = "sendMove"]]
                         /\ UNCHANGED <<loops, writers>>
                    [] hd.op = "UpdateAllTimes" /\ r = "move" ->
                         /\ handlers' = [handlers EXCEPT ![h] = [hd EXCEPT !.pc = "sendGet"]]
                         /\ UNCHANGED <<loops, writers>>
                    [] OTHER ->
                         /\ loops' = RunAll(loops, tks)
                         /\ writers' = [writers EXCEPT !.sel = @ + 1]
                         /\ handlers' = [handlers EXCEPT ![h] = Over(hd, "done", 200)]
    /\ UNCHANGED <<call, records, csv, produced, ticks, crashed>>

\* Every listed wash after the current one is the next to delete, whatever its
\* package.
NextMatchAnyPackage(items, k) == IF k < Len(items) THEN k + 1 ELSE 0

\* The next listed wash after index k that this handler deletes (package 1),
\* 0 when there is none.
NextMatch(items, k) ==
    LET later == {j \in (k + 1)..Len(items) : items[j].WashPkgNum = 1}
    IN IF later = {} THEN 0 ELSE CHOOSE j \in later : \A x \in later : j <= x

\* DeleteQueuedCars up to its first DeleteQueuedCar: r.RTC.GetQueue(), the
\* send of its record, the error check and the start of the range over
\* queue.Queue.QueueItems, where a nil queue panics.  A panic in a handler is
\* recovered by the server.
DeleteQueuedCars(h) ==
    /\ Arrives(h)
    /\ \E o \in GetQueueOutcomes :
          LET hd == [IdleHandler EXCEPT !.op = "DeleteQueuedCars"]
              k == NextMatch(o.queue.QueueItems, 0)
          IN IF o.status = "panicked"
             THEN /\ NoSend
                  /\ handlers' = [handlers EXCEPT ![h] = Died(hd.op)]
             ELSE /\ Send(o.record)
                  /\ handlers' = [handlers EXCEPT ![h] =
                        IF o.err # NilErr
                        THEN Responded(hd.op, 500)
                        ELSE IF o.queue.isNil
                        THEN Died(hd.op)
                        ELSE IF k = 0
                        THEN Responded(hd.op, 200)
                        ELSE [hd EXCEPT !.pc = "delete", !.k = k,
                                        !.items = o.queue.QueueItems]]
    /\ UNCHANGED <<call, loops, tickers, writers, csv, ticks, crashed>>

\* r.RTC.DeleteQueuedCar(wash.WashID) for the next wash of package 1, the
\* send of its record, and the step to the wash after it; logged says that
\* the handler has logged a failed delete of this batch.
DeleteNext(h) ==
    /\ ~crashed
    /\ handlers[h].pc = "delete"
    /\ LET hd == handlers[h]
           k == NextMatch(hd.items, hd.k)
       IN \E o \in {[record |-> x.record, failed |-> x.err # NilErr] :
                        x \in DeleteQueuedCarOutcomes[hd.items[hd.k].WashID]} :
             /\ Send(o.record)
             /\ handlers' = [handlers EXCEPT ![h] =
                   IF k = 0
                   THEN Responded(hd.op, 200)
                   ELSE [hd EXCEPT !.k = k, !.logged = @ \/ o.failed]]
    /\ UNCHANGED <<call, loops, tickers, writers, csv, ticks, crashed>>

Next ==
    \/ \E r \in Routines, k \in LoopIds : Tick(r, k)
    \/ \E r \in Routines, i \in LoopIds :
          \/ LoopTick(r, i)
          \/ LoopQueueWash(r, i)
          \/ LoopGetQueue(r, i)
          \/ LoopMoveWash(r, i)
          \/ LoopDeleteQueuedCar(r, i)
          \/ \E h \in HandlerIds : LoopDone(r, i, h)
    \/ WriterSelectRecord
    \/ WriterWrite
    \/ \E h \in HandlerIds :
          \/ StartAll(h)
          \/ StopAll(h)
          \/ StartGet(h)
          \/ StopQueueAndMove(h)
          \/ StartQueueAndMove(h)
          \/ DeleteQueuedCars(h)
          \/ DeleteNext(h)
          \/ UpdateQueueTime(h)
          \/ UpdateMoveTime(h)
          \/ UpdateGetTime(h)
          \/ UpdateAllTimes(h)
          \/ \E s \in IntervalTexts : UpdateTime(h, s)
          \/ WriterDone(h)

Spec == Init /\ [][Next]_vars

\* ------------------------------------------------------------- scheduler claims
\* The record that was the n-th to be placed in Writer.Records is still in the
\* channel, is a row of the store, or is held by a consumer about to write it.
Kept(n) ==
    \/ \E i \in 1..Len(records) : records[i].n = n
    \/ \E i \in 1..Len(csv) : csv[i].n = n
    \/ \E x \in writers.held : x.n = n

\* C2: the sink never silently discards a record: every record a producer
\* has placed in the buffer is still in the buffer or has been appended to
\* the backing store; the consumer removes none without writing it.
C2_NoRecordDiscarded == \A n \in 1..produced : Kept(n)

\* C3: at most one loop instance of each routine is in the Executing state
\* at any time, after any sequence of control operations.
C3_NoOverlap ==
    \A r \in Routines :
        Cardinality({i \in LoopIds : Executing(loops[r][i])}) <= 1

\* A loop of the move routine whose GetQueue has just listed zero washes,
\* after a QueueWash that returned a handle.
ListedNone(l) == l.pc = "call" /\ l.step = "MOVE" /\ l.n = 0

\* C11: when the move routine's list returns zero entries after a successful
\* enqueue, the tick goes on without MoveWash to DeleteQueuedCar with the
\* enqueued handle: the process does not die and the loop's next call is the
\* delete of that handle.
C11_EmptyListStillDeletes ==
    [][\A i \in LoopIds :
          (ListedNone(loops["move"][i]) /\ ~crashed) =>
              /\ ~crashed'
              /\ \/ loops'["move"][i] = loops["move"][i]
                 \/ /\ loops'["move"][i].pc = "call"
                    /\ loops'["move"][i].step = "DELETE"
                    /\ loops'["move"][i].washID = loops["move"][i].washID]_vars

\* An interval update whose handler is over, with no request after it.
LastOver(h) ==
    /\ handlers[h].pc \in {"done", "running", "panicked"}
    /\ handlers[h].op \in {"UpdateQueueTime", "UpdateMoveTime", "UpdateGetTime",
                           "UpdateAllTimes"}
    /\ \A j \in HandlerIds : j > h => handlers[j].pc = "idle"

\* A loop of routine r is running on the routine's latest ticker, and that
\* ticker has the fallback interval.
OnFallback(r) ==
    /\ tickers[r] # << >>
    /\ tickers[r][Len(tickers[r])].d = Dur(FallbackSeconds, 0)
    /\ \E i \in LoopIds :
          Running(loops[r][i]) /\ loops[r][i].tk = Len(tickers[r])

\* C12: once a request that gave a routine an interval text that is no number
\* is over, the routine has a running loop on the fallback interval.
C12_FallbackLoopRuns ==
    \A h \in HandlerIds : \A r \in Routines :
       (LastOver(h) /\ handlers[h].texts[r] = NoText /\ ~crashed) => OnFallback(r)

\* The packages of the washes a DeleteQueuedCars handler has listed.
Listed(hd) == [j \in 1..Len(hd.items) |-> hd.items[j].WashPkgNum]

\* The wash at index k is the first of package 1 after index j.
FirstAfter(hd, j, k) ==
    /\ k \in (j + 1)..Len(hd.items)
    /\ hd.items[k].WashPkgNum = 1
    /\ \A x \in (j + 1)..(k - 1) : hd.items[x].WashPkgNum # 1

\* The step has placed exactly one record in Writer.Records, with this label.
Forwarded(label) ==
    /\ produced' = produced + 1
    /\ records' # << >>
    /\ records'[Len(records')].rec[1] = label
    /\ records'[Len(records')].n = produced'

\* C13: DeleteQueuedCars lists once and forwards the list record; it then
\* deletes exactly the listed washes of package 1 in listing order, each
\* delete forwarding its record, and a delete that fails does not end the
\* batch: the handler goes on to the next wash of package 1 and is done only
\* when there is none left.
C13_DeletesMatchingInOrder ==
    [][\A h \in HandlerIds :
          LET hd == handlers[h]
              nx == handlers'[h]
          IN /\ (hd.pc = "idle" /\ nx.pc = "delete") =>
                   /\ nx.op = "DeleteQueuedCars"
                   /\ Forwarded("GET")
                   /\ FirstAfter(nx, 0, nx.k)
             /\ (hd.pc = "delete" /\ nx # hd) =>
                   /\ Forwarded("DELETE")
                   /\ \/ /\ nx.pc = "delete"
                         /\ nx.items = hd.items
                         /\ FirstAfter(hd, hd.k, nx.k)
                      \/ /\ nx.pc = "done"
                         /\ nx.status = 200
                         /\ \A x \in (hd.k + 1)..Len(hd.items) :
                               hd.items[x].WashPkgNum # 1]_vars

\* The handler has listed packages [1,2,1], its delete of the first wash has
\* failed and it has gone on to the third.
C13_Witness ==
    \E h \in HandlerIds :
       /\ handlers[h].pc = "delete"
       /\ Listed(handlers[h]) = <<1, 2, 1>>
       /\ handlers[h].k = 3
       /\ handlers[h].logged

\* C14: whatever its GetQueue returns, DeleteQueuedCars does not crash and
\* forwards the list's record: a list that failed or gave no parsed queue ends
\* in a 5xx response and in no delete, never in a panic of the handler.
C14_ListFailureSurfaced ==
    [][\A h \in HandlerIds :
          (handlers[h].pc = "idle" /\ handlers'[h].op = "DeleteQueuedCars") =>
              /\ handlers'[h].pc # "panicked"
              /\ Forwarded("GET")
              /\ handlers'[h].pc = "done" => handlers'[h].status \in {200, 500}]_vars

\* C15: no outcome of a client call inside a tick ends the process or the
\* loop: a loop that is in the body of a tick is, after any step, still in it
\* or back at its select, and the process is alive.
C15_TickNeverCrashes ==
    [][\A r \in Routines : \A i \in LoopIds :
          (Executing(loops[r][i]) /\ ~crashed) =>
              (~crashed' /\ Running(loops'[r][i]))]_vars

\* ------------------------------------------------------------- shutdown
\* The process under shutdown requests only: the tickers, the loops, the
\* consumer and StopAll.  The runtime runs every goroutine that can take a
\* step and delivers every send on a channel that has a receiver at its
\* select, and a ticker fires when its interval has passed.
Goroutines ==
    \/ \E r \in Routines, i \in LoopIds :
          \/ LoopTick(r, i)
          \/ LoopQueueWash(r, i)
          \/ LoopGetQueue(r, i)
          \/ LoopMoveWash(r, i)
          \/ LoopDeleteQueuedCar(r, i)
          \/ \E h \in HandlerIds : LoopDone(r, i, h)
    \/ WriterSelectRecord
    \/ WriterWrite
    \/ \E h \in HandlerIds : WriterDone(h)

Timers == \E r \in Routines, k \in LoopIds : Tick(r, k)

NextShutdown ==
    \/ Timers
    \/ Goroutines
    \/ \E h \in HandlerIds : StopAll(h)

SpecShutdown ==
    Init /\ [][NextShutdown]_vars /\ WF_vars(Goroutines) /\ WF_vars(Timers)

\* A StopAll that has not answered, while a consumer is running.
ShutdownPending(h) ==
    /\ handlers[h].op = "StopAll"
    /\ handlers[h].pc # "done"
    /\ writers.sel + writers.rcv + Cardinality(writers.held) > 0

\* C16: a StopAll issued while the consumer is running completes: its sends
\* on the routines' Done and on Writer.Done are received and the handler
\* answers, unless the process has died.
C16_ShutdownCompletes ==
    \A h \in HandlerIds :
       ShutdownPending(h) ~> (handlers[h].pc = "done" \/ crashed)

\* The tickers of a routine that are still running: every one that was ever
\* made, since nothing calls Stop on a ticker.
ActiveTickers(r) == 1..Len(tickers[r])

\* C17: each routine has at most one ticker that is still running, after any
\* number of interval updates.
C17_OneActiveTicker ==
    \A r \in Routines : Cardinality(ActiveTickers(r)) <= 1

\* The loops of routine r that are running.
RunningLoops(r) == {i \in LoopIds : Running(loops[r][i])}

\* C18: once an interval update has done its steps, each routine it has
\* reconfigured has exactly one running loop, and that loop listens on the
\* newly made ticker: none runs against a replaced one.
C18_OneLoopOnNewTicker ==
    \A h \in HandlerIds : \A r \in Routines :
       (/\ LastOver(h)
        /\ handlers[h].pc \in {"done", "running"}
        /\ handlers[h].texts[r] # Unread
        /\ ~crashed)
       => /\ Cardinality(RunningLoops(r)) = 1
          /\ \A i \in RunningLoops(r) : loops[r][i].tk = Len(tickers[r])

\* ------------------------------------------------------------- intervals
\* UpdateTime over a range of interval texts: one single-routine update has
\* arrived with its text, on the freshly started process; its send on Done is
\* received and UpdateTime makes the ticker.
Micros(m) == [numeric |-> TRUE, micros |-> m]

\* Interval texts in microseconds, from "-1" to "3": below 0.001, between
\* 0.001 and 0.01, between 0.01 and 1, and from 1 up.  The texts are away from
\* 0.01, where the 32-bit parse decides the branch.
IntervalMicros ==
    {-1000000, 0, 5, 500, 1000, 2500, 5000, 20000, 250000, 500000, 999999,
     1000000, 1500000, 2000000, 3000000}

IntervalInputs == {NoText} \cup {Micros(m) : m \in IntervalMicros}

UpdateOps == {"UpdateQueueTime", "UpdateMoveTime", "UpdateGetTime"}

RoutineOf(op) ==
    CASE op = "UpdateQueueTime" -> "queue"
      [] op = "UpdateMoveTime" -> "move"
      [] OTHER -> "get"

InitInterval ==
    /\ InitClient
    /\ tickers = [r \in Routines |->
                    <<NewTicker(Dur(CASE r = "queue" -> QueueDefault
                                      [] r = "get" -> GetDefault
                                      [] OTHER -> MoveDefault, 0))>>]
    /\ loops = [r \in Routines |->
                  Run([i \in LoopIds |-> IdleLoop], 1, 0)]
    /\ \E op \in UpdateOps, text \in IntervalInputs :
          handlers = [h \in HandlerIds |->
             IF h = 1
             THEN [IdleHandler EXCEPT !.op = op,
                                      !.pc = SendPc(RoutineOf(op)),
                                      !.texts[RoutineOf(op)] = text]
             ELSE IdleHandler]
    /\ writers = [sel |-> 1, rcv |-> 0, held |-> {}]
    /\ records = <<>>
    /\ csv = <<>>
    /\ produced = 0
    /\ ticks = 0
    /\ crashed = FALSE

\* UpdateTime with the text of the request.
UpdateTimeOfRequest(h) ==
    /\ handlers[h].pc = "update"
    /\ UpdateTime(h, handlers[h].texts[handlers[h].cur])

NextInterval ==
    \E h \in HandlerIds :
       \/ \E r \in Routines, i \in LoopIds : LoopDone(r, i, h)
       \/ UpdateTimeOfRequest(h)

SpecInterval == InitInterval /\ [][NextInterval]_vars

\* t seconds as a duration, t given in microseconds.
SecondsOf(micros) == Dur(micros \div 1000000, (micros % 1000000) * 1000)

\* The update of routine r by request h has returned without an error.
Accepted(h, r) ==
    /\ handlers[h].op \in UpdateOps
    /\ RoutineOf(handlers[h].op) = r
    /\ handlers[h].pc \in {"done", "running"}
    /\ handlers[h].texts[r].numeric

\* C19: when UpdateTime accepts a numeric text of t seconds, the ticker it
\* makes has a period of t seconds, for t below one second too.
C19_PeriodIsTheTextsSeconds ==
    \A h \in HandlerIds : \A r \in Routines :
       Accepted(h, r) =>
          tickers[r][Len(tickers[r])].d = SecondsOf(handlers[h].texts[r].micros)

\* The only running loop of routine r is loop i, at its select with both a
\* tick of its ticker and a send on the routine's Done ready.
BothReady(r, i) ==
    /\ RunningLoops(r) = {i}
    /\ loops[r][i].pc = "wait"
    /\ tickers[r][loops[r][i].tk].ready
    /\ \E h \in HandlerIds : handlers[h].pc = SendPc(r)

\* C20: a loop at its select with both a cancellation and a tick ready takes
\* the cancellation: it does not go into the body of another tick.
C20_CancellationPreferred ==
    [][\A r \in Routines : \A i \in LoopIds :
          (BothReady(r, i) /\ ~crashed) => ~Executing(loops'[r][i])]_vars

\* Some send on the Done of routine r has been received in this step.
DoneReceived(r) ==
    \E h \in HandlerIds : handlers[h].pc = SendPc(r) /\ handlers'[h] # handlers[h]

\* C21: cancellation is observed only at a loop's select: a send on a
\* routine's Done is received only by a loop of the routine that is at its
\* select, which stops, and a loop in the body of a tick is never stopped by
\* one; the sender stays blocked meanwhile.
C21_CancellationOnlyAtSelect ==
    [][\A r \in Routines :
          /\ DoneReceived(r) =>
                \E j \in LoopIds :
                   loops[r][j].pc = "wait" /\ loops'[r][j].pc = "stopped"
          /\ \A i \in LoopIds :
                Executing(loops[r][i]) =>
                   \/ Running(loops'[r][i])
                   \/ ~DoneReceived(r)]_vars

\* A send on the Done of a routine is pending while the routine's only loop
\* is in the body of a tick.
C21_Witness ==
    \E r \in Routines : \E i \in LoopIds : \E h \in HandlerIds :
       /\ RunningLoops(r) = {i}
       /\ Executing(loops[r][i])
       /\ handlers[h].pc = SendPc(r)

\* C22: every client call of a tick hands its record to the Sink: a step of
\* a loop in the body of a tick, which is one client call, places one record
\* in Writer.Records, whether the call failed or not.
C22_RecordPerCall ==
    [][\A r \in Routines : \A i \in LoopIds :
          (/\ Executing(loops[r][i])
           /\ loops'[r][i] # loops[r][i]
           /\ Running(loops'[r][i])
           /\ ~crashed')
          => produced' = produced + 1]_vars

\* The handles a QueueWash can return with a nil error.
EnqueuedHandles == {o.washID : o \in {x \in QueueWashOutcomes : x.err = NilErr}}

Consumers == writers.sel + writers.rcv + Cardinality(writers.held)

\* C24: the Result Sink has a single consumer: at most one Writer.Write loop
\* is running at any time.
C24_SingleConsumer == Consumers <= 1

\* ------------------------------------------------------------- sink
\* The sink under its producers and consumers: the tickers and the loops,
\* the requests that start and stop consumers (StartAll, StopAll) and the
\* request that produces on its own (DeleteQueuedCars), with the receive and
\* the write of a consumer as separate steps when there are several.  The
\* runtime runs every goroutine that can take a step.
GoroutinesSink ==
    \/ Goroutines
    \/ WriterReceive
    \/ WriterWriteHeld
    \/ \E h \in HandlerIds : DeleteNext(h)

NextSink ==
    \/ Timers
    \/ GoroutinesSink
    \/ \E h \in HandlerIds :
          \/ StartAll(h)
          \/ StopAll(h)
          \/ DeleteQueuedCars(h)

SpecSink ==
    Init /\ [][NextSink]_vars /\ WF_vars(GoroutinesSink) /\ WF_vars(Timers)

\* C25: the rows of the store are in the order in which their records were
\* placed in Writer.Records.
C25_StoreInArrivalOrder ==
    \A i, j \in 1..Len(csv) : i < j => csv[i].n < csv[j].n

\* A producer is blocked in its send on Writer.Records: the buffer is full
\* and a DeleteQueuedCars handler, or a loop at the last call of its tick, has
\* a record to place in it.
ProducerBlocked ==
    /\ Len(records) = RecordsCap
    /\ \/ \E h \in HandlerIds : handlers[h].pc = "delete"
       \/ \E r \in Routines : \E i \in LoopIds :
             Executing(loops[r][i]) /\ loops[r][i].step = "DELETE"

\* C26: a producer blocked on Writer.Records is eventually released: the
\* buffer gets room again, unless the process has died.
C26_ProducerReleased ==
    ProducerBlocked ~> (Len(records) < RecordsCap \/ crashed)

\* C27: once StopAll has done its four sends, and before any later request,
\* no loop of the three routines and no consumer is running.
C27_StopAllStopsAll ==
    \A h \in HandlerIds :
       (/\ handlers[h].op = "StopAll"
        /\ handlers[h].pc = "done"
        /\ \A j \in HandlerIds : j > h => handlers[j].pc = "idle"
        /\ ~crashed)
       => /\ \A r \in Routines : RunningLoops(r) = {}
          /\ Consumers = 0

\* The handle QueueWash returns, with a nil error, when the read gave no
\* message or the response did not decode.
NoHandle == -1

\* C28: DeleteQueuedCar and MoveWash are never called with the sentinel -1:
\* a loop about to call either holds a handle that an enqueue response gave.
C28_NoCallWithSentinel ==
    \A r \in Routines : \A i \in LoopIds :
       (/\ Executing(loops[r][i])
        /\ \/ loops[r][i].step = "DELETE"
           \/ loops[r][i].step = "MOVE" /\ loops[r][i].n > 0)
       => loops[r][i].washID # NoHandle

\* The single-routine updates again, with the runtime running every goroutine
\* that can take a step.
SpecIntervalFair == SpecInterval /\ WF_vars(NextInterval)

\* C29: every interval update returns to its caller: its handler comes to an
\* end, by an answer or by a panic the server recovers.
C29_UpdateReturns ==
    \A h \in HandlerIds :
       (handlers[h].op \in UpdateOps) ~> (handlers[h].pc \in {"done", "panicked"})

\* C30: a numeric interval text never makes UpdateTime crash after it has
\* cancelled the loop: the handler of an update with a numeric text does not
\* panic, and once it is over the routine has a running loop.
C30_NumericTextKeepsLoop ==
    \A h \in HandlerIds : \A r \in Routines :
       (/\ handlers[h].op \in UpdateOps
        /\ RoutineOf(handlers[h].op) = r
        /\ handlers[h].texts[r].numeric
        /\ handlers[h].pc \in {"done", "running", "panicked"})
       => /\ handlers[h].pc # "panicked"
          /\ RunningLoops(r) # {}
          /\ Positive(tickers[r][Len(tickers[r])].d)

\* The loops and the tickers of routine r are what they were.
Untouched(r) == loops'[r] = loops[r] /\ tickers'[r] = tickers[r]

\* C31: a step of a request that targets some routines leaves the others as
\* they are: StopQueueAndMove and StartQueueAndMove change neither the get
\* routine nor the consumers, StartGet changes neither the queue nor the move
\* routine, and an update of one routine's interval changes the loops and the
\* ticker of that routine only.
C31_OthersUnchanged ==
    [][\A h \in HandlerIds :
          LET op == handlers'[h].op
          IN (handlers'[h] # handlers[h]) =>
                /\ (op \in {"StopQueueAndMove", "StartQueueAndMove"}) =>
                      (Untouched("get") /\ writers' = writers)
                /\ (op = "StartGet") =>
                      (Untouched("queue") /\ Untouched("move") /\ writers' = writers)
                /\ (op \in UpdateOps) =>
                      /\ \A r \in Routines \ {RoutineOf(op)} : Untouched(r)
                      /\ writers' = writers]_vars

\* StopQueueAndMove has stopped the queue and the move routine and a later
\* StartQueueAndMove has started them again, with the get routine's first
\* loop running all along.
C31_Witness ==
    /\ handlers[1].op = "StopQueueAndMove"
    /\ handlers[1].pc = "done"
    /\ handlers[2].op = "StartQueueAndMove"
    /\ handlers[2].pc = "done"
    /\ RunningLoops("queue") # {}
    /\ RunningLoops("move") # {}
    /\ RunningLoops("get") = {1}
    /\ Consumers = 1

SpecClient == Init /\ [][NextClient]_vars

====
